---- MODULE Spec2Model ----
(***************************************************************************)
(* Factoid block (FBlock) codec and admission rules, and the SCWallet key  *)
(* store, transaction builder and signer.                                  *)
(*                                                                         *)
(* Sources: src/wallet/scwallet.go (wallet) and                            *)
(* src/block/test/scblock_test.go (lines 161-560 hold the FBlock code).    *)
(* The transaction object (fct.Transaction), the hash primitive and the    *)
(* MapDB key/value store are not part of the sources at hand; they are     *)
(* modelled from the contract the specification states for them.           *)
(***************************************************************************)
EXTENDS Integers, Sequences, FiniteSets, TLC

(***************************************************************************)
(* Bounds of the model.                                                    *)
(***************************************************************************)
NumProcs == 2
\* concurrent callers of one wallet (SpecConc)
NumKeys == 2
\* key pairs the generator can produce
MaxTx == 1
\* transaction objects CreateTransaction may allocate (Spec)
MaxBlockBuildTx == 2
\* transaction objects CreateTransaction may allocate (SpecBuild)
MaxSetFields == 1
\* metadata fields the setters may move away from their initial value
MaxInputs == 2
\* inputs per transaction
MaxOutputs == 1
\* outputs, and entry-credit outputs, per transaction
MaxBlockTx == 2
\* transactions held by the block
MaxAmount == 1
\* amounts are 1..MaxAmount

(***************************************************************************)
(* Program constants.                                                      *)
(***************************************************************************)
ADDRESS_LENGTH == 32
SIGNATURE_LENGTH == 64
InitExchRate == 1000
InitDBHeight == 0

\* The nil interface value returned by a lookup that finds nothing.
Nil == [nil |-> TRUE]

Keys == 1..NumKeys
Amounts == 1..MaxAmount
Names == { <<96 + k>> : k \in Keys }

Rep(b, n) == [i \in 1..n |-> b]

\* ed25519.GenerateKey: a 32-byte public key and a 64-byte private key whose
\* second half is the public key.
PubKey(k) == Rep(k, ADDRESS_LENGTH)
PriKey(k) == Rep(100 + k, SIGNATURE_LENGTH - ADDRESS_LENGTH) \o PubKey(k)
generateKey == { [pub |-> PubKey(k), pri |-> PriKey(k)] : k \in Keys }

\* fct.NewRCD_1(pub): the single-key redeem condition.
NewRCD_1(pub) == [type |-> 1, pub |-> pub]
\* A redeem condition of another type (multi-signature), never built by the wallet.
RCD_2(pub) == [type |-> 2, pub |-> pub]

\* The address of a redeem condition: a 32-byte hash of its binary form.
\* Collision-free on the redeem conditions of the model.
AddressOfRCD(rcd) == <<200 + rcd.type>> \o Rep(rcd.pub[1], ADDRESS_LENGTH - 1)

\* WalletEntry after AddKey, SetName, SetRCD.
WalletEntry(name, pub, pri) ==
    [name |-> name, public |-> pub, private |-> pri, rcd |-> NewRCD_1(pub)]
GetAddress(we) == AddressOfRCD(we.rcd)

(***************************************************************************)
(* MapDB: raw get/put by (bucket, key).                                    *)
(***************************************************************************)
W_NAME_HASH == "name"
W_ADDRESS_HASH == "addr"
W_ADDRESS_PUB_KEY == "pub"
Buckets == {W_NAME_HASH, W_ADDRESS_HASH, W_ADDRESS_PUB_KEY}

EmptyMap == << >>
EmptyDB == [b \in Buckets |-> EmptyMap]
GetRaw(d, bucket, key) ==
    IF key \in DOMAIN d[bucket] THEN d[bucket][key] ELSE Nil
PutRaw(d, bucket, key, val) ==
    [d EXCEPT ![bucket] =
        [x \in (DOMAIN d[bucket]) \cup {key} |->
            IF x = key THEN val ELSE d[bucket][x]]]

(***************************************************************************)
(* Byte helpers (encoding/binary, big-endian).                             *)
(***************************************************************************)
\* The numbers of the model are below 2^31: the bytes above the low four
\* are 0.
BigEndian(n, w) ==
    [i \in 1..w |-> IF w - i > 3 THEN 0 ELSE (n \div (256 ^ (w - i))) % 256]
RECURSIVE FromBigEndian(_)
FromBigEndian(bs) ==
    IF bs = << >> THEN 0
    ELSE FromBigEndian(SubSeq(bs, 1, Len(bs) - 1)) * 256 + bs[Len(bs)]
Take(bs, n) == SubSeq(bs, 1, n)
Drop(bs, n) == SubSeq(bs, n + 1, Len(bs))
RECURSIVE Concat(_)
Concat(ss) == IF ss = << >> THEN << >> ELSE Head(ss) \o Concat(Tail(ss))

(***************************************************************************)
(* fct.Transaction: inputs, outputs, entry-credit outputs, redeem          *)
(* conditions and signature blocks, with the operations the block and the  *)
(* wallet call on it.                                                      *)
(***************************************************************************)
NewTransaction ==
    [inputs |-> << >>, outputs |-> << >>, ecoutputs |-> << >>,
     rcds |-> << >>, sigBlocks |-> << >>]
Trans_AddInput(t, adr, amount) ==
    [t EXCEPT !.inputs = Append(@, [address |-> adr, amount |-> amount])]
Trans_AddRCD(t, rcd) == [t EXCEPT !.rcds = Append(@, rcd)]
Trans_AddOutput(t, adr, amount) ==
    [t EXCEPT !.outputs = Append(@, [address |-> adr, amount |-> amount])]
Trans_AddECOutput(t, adr, amount) ==
    [t EXCEPT !.ecoutputs = Append(@, [address |-> adr, amount |-> amount])]
\* GetInput(index): an error when index is not a position of an input.
Trans_HasInput(t, index) == index >= 0 /\ index < Len(t.inputs)
\* SetSignatureBlock(i, blk): the list grows with empty blocks up to position i.
Trans_SetSignatureBlock(t, i, blk) ==
    [t EXCEPT !.sigBlocks =
        [j \in 1..(IF Len(@) > i THEN Len(@) ELSE i + 1) |->
            IF j = i + 1 THEN blk ELSE IF j <= Len(@) THEN @[j] ELSE << >>]]

WELL_FORMED == "WELL_FORMED"
\* Validate: the verdict on the transaction's shape (its counts agree).
Trans_Validate(t) ==
    IF Len(t.inputs) = 0 THEN "NO_INPUTS"
    ELSE IF Len(t.rcds) # Len(t.inputs) THEN "RCD_INPUT_MISMATCH"
    ELSE IF Len(t.sigBlocks) # Len(t.inputs) THEN "SIGNATURE_INPUT_MISMATCH"
    ELSE WELL_FORMED

MarshalAddress(a) == a.address \o BigEndian(a.amount, 8)
MarshalAddresses(as) == Concat([i \in 1..Len(as) |-> MarshalAddress(as[i])])
\* MarshalBinarySig: the part of the transaction that is signed (everything
\* but the redeem conditions' signature blocks).
Trans_MarshalBinarySig(t) ==
    <<Len(t.inputs), Len(t.outputs), Len(t.ecoutputs)>>
        \o MarshalAddresses(t.inputs)
        \o MarshalAddresses(t.outputs)
        \o MarshalAddresses(t.ecoutputs)
MarshalRCD(rcd) == <<rcd.type>> \o rcd.pub
MarshalSignatureBlock(blk) == <<Len(blk)>> \o Concat(blk)
\* MarshalBinary: the signed part, then each input's redeem condition and
\* signature block.  It fails when the three lists are not aligned.
Trans_MarshalOK(t) ==
    Len(t.rcds) = Len(t.inputs) /\ Len(t.sigBlocks) = Len(t.inputs)
Trans_MarshalBinary(t) ==
    IF ~Trans_MarshalOK(t) THEN [err |-> TRUE, data |-> << >>]
    ELSE [err |-> FALSE,
          data |-> Trans_MarshalBinarySig(t)
              \o Concat([i \in 1..Len(t.inputs) |->
                    MarshalRCD(t.rcds[i]) \o MarshalSignatureBlock(t.sigBlocks[i])])]

\* ed25519.Sign(pri, data): SIGNATURE_LENGTH bytes, determined by the key and
\* the message (one byte of the key, then a digest of the message that keeps
\* the counts and one byte of every address and amount).
Digest(data) ==
    LET n == data[1] + data[2] + data[3]
    IN  <<data[1], data[2], data[3]>>
        \o Concat([j \in 1..n |->
              <<data[3 + (j - 1) * (ADDRESS_LENGTH + 8) + 1],
                data[3 + (j - 1) * (ADDRESS_LENGTH + 8) + 2],
                data[3 + j * (ADDRESS_LENGTH + 8)]>>])
Sign(pri, data) ==
    LET d == Digest(data)
    IN  <<pri[1]>> \o d \o Rep(0, SIGNATURE_LENGTH - 1 - Len(d))

(***************************************************************************)
(* State.                                                                  *)
(***************************************************************************)
VARIABLES
    db,         \* SCWallet.db: the three indexes of the key store
    trans,      \* the transaction objects allocated so far (by reference)
    b,          \* the FBlock: metadata and references to its transactions
    ret,        \* the last call and what it returned
    panicked,   \* a call ended in a run-time panic
    procs       \* concurrent callers of the wallet: where each one is

vars == <<db, trans, b, ret, panicked, procs>>

Allocated == DOMAIN trans
NilHash == << >>
ZeroHash == Rep(0, ADDRESS_LENGTH)

\* arg is the name given to GenerateAddress, the record of a codec call
\* (its input, its output), << >> for every other call.
Ret(op, tx, arg, ok, err) ==
    [op |-> op, tx |-> tx, arg |-> arg, ok |-> ok, err |-> err]
NoErr == "nil"

Procs == 1..NumProcs
\* A caller that is in no call: pc is the line GenerateAddress is at, we the
\* entry it is building, seen what its last lookup found.
Idle == [pc |-> "idle", we |-> Nil, seen |-> Nil]

(***************************************************************************)
(* Wallet: address generation.                                             *)
(***************************************************************************)
\* Mutant: the first key pair is taken, without the loop over the
\* public-key index.
UniqueKeys_NoLoop(d) == generateKey

\* The key pair GenerateAddress ends up with: generateKey is repeated until
\* the public key is not in the public-key index.
UniqueKeys(d) ==
    { kp \in generateKey : GetRaw(d, W_ADDRESS_PUB_KEY, kp.pub) = Nil }

\* Mutant: the name index is emptied before the new entry is put in it.
RegisterEntry_FreshNameIndex(d, we) ==
    PutRaw(PutRaw(PutRaw([d EXCEPT ![W_NAME_HASH] = EmptyMap],
                         W_ADDRESS_HASH, GetAddress(we), we),
                  W_ADDRESS_PUB_KEY, we.public, we),
           W_NAME_HASH, we.name, we)

\* The three PutRaw calls of the new-name case.
RegisterEntry(d, we) ==
    PutRaw(PutRaw(PutRaw(d, W_ADDRESS_HASH, GetAddress(we), we),
                  W_ADDRESS_PUB_KEY, we.public, we),
           W_NAME_HASH, we.name, we)

\* Mutant: the name is not looked up before the entry is registered.
GenerateAddress_NoNameCheck(name, m, n) ==
    /\ ~panicked
    /\ IF m = 1 /\ n = 1
       THEN \E kp \in UniqueKeys(db) :
                LET we == WalletEntry(name, kp.pub, kp.pri)
                IN  /\ db' = RegisterEntry(db, we)
                    /\ ret' = Ret("GenerateAddress", 0, name, TRUE, NoErr)
       ELSE /\ ret' = Ret("GenerateAddress", 0, name, FALSE, "Not this far yet!")
            /\ db' = db
    /\ UNCHANGED <<procs, trans, b, panicked>>

\* Mutant: the thresholds are not looked at; every new name gets an entry.
GenerateAddress_AnyThreshold(name, m, n) ==
    /\ ~panicked
    /\ IF GetRaw(db, W_NAME_HASH, name) # Nil
       THEN /\ ret' = Ret("GenerateAddress", 0, name, FALSE, "Duplicate Name")
            /\ db' = db
       ELSE \E kp \in UniqueKeys(db) :
                LET we == WalletEntry(name, kp.pub, kp.pri)
                IN  /\ db' = RegisterEntry(db, we)
                    /\ ret' = Ret("GenerateAddress", 0, name, TRUE, NoErr)
    /\ UNCHANGED <<procs, trans, b, panicked>>

GenerateAddress(name, m, n) ==
    /\ ~panicked
    /\ IF GetRaw(db, W_NAME_HASH, name) # Nil
       THEN /\ ret' = Ret("GenerateAddress", 0, name, FALSE, "Duplicate Name")
            /\ db' = db
       ELSE IF m = 1 /\ n = 1
       THEN \E kp \in UniqueKeys(db) :
                LET we == WalletEntry(name, kp.pub, kp.pri)
                IN  /\ db' = RegisterEntry(db, we)
                    /\ ret' = Ret("GenerateAddress", 0, name, TRUE, NoErr)
       ELSE /\ ret' = Ret("GenerateAddress", 0, name, FALSE, "Not this far yet!")
            /\ db' = db
    /\ UNCHANGED <<procs, trans, b, panicked>>

(***************************************************************************)
(* Wallet: transaction building.                                           *)
(***************************************************************************)
CreateTransaction(limit) ==
    /\ ~panicked
    /\ Len(trans) < limit
    /\ trans' = Append(trans, NewTransaction)
    /\ ret' = Ret("CreateTransaction", Len(trans) + 1, << >>, TRUE, NoErr)
    /\ UNCHANGED <<procs, db, b, panicked>>

\* getWalletEntry: the entry under the address-hash index and its address.
getWalletEntry(d, address) ==
    LET v == GetRaw(d, W_ADDRESS_HASH, address)
    IN  IF v = Nil
        THEN [we |-> Nil, adr |-> NilHash, err |-> "Unknown address"]
        ELSE [we |-> v, adr |-> GetAddress(v), err |-> NoErr]

AddInput(t, address, amount) ==
    /\ ~panicked
    /\ Len(trans[t].inputs) < MaxInputs
    /\ LET g == getWalletEntry(db, address)
       IN  IF g.err # NoErr
           THEN /\ trans' = trans
                /\ ret' = Ret("AddInput", t, << >>, FALSE, g.err)
           ELSE /\ trans' = [trans EXCEPT ![t] =
                        Trans_AddRCD(Trans_AddInput(@, g.adr, amount), g.we.rcd)]
                /\ ret' = Ret("AddInput", t, << >>, TRUE, NoErr)
    /\ UNCHANGED <<procs, db, b, panicked>>

\* Mutant: the input is overwritten, the redeem condition at index is not.
UpdateInput_KeepsRCD(t, index, address, amount) ==
    /\ ~panicked
    /\ LET g == getWalletEntry(db, address)
       IN  IF g.err # NoErr
           THEN /\ trans' = trans
                /\ ret' = Ret("UpdateInput", t, << >>, FALSE, g.err)
           ELSE IF ~Trans_HasInput(trans[t], index)
           THEN /\ trans' = trans
                /\ ret' = Ret("UpdateInput", t, << >>, FALSE, "Index out of range")
           ELSE /\ trans' = [trans EXCEPT
                        ![t].inputs[index + 1] =
                            [address |-> g.adr, amount |-> amount]]
                /\ ret' = Ret("UpdateInput", t, << >>, TRUE, NoErr)
    /\ UNCHANGED <<procs, db, b, panicked>>

UpdateInput(t, index, address, amount) ==
    /\ ~panicked
    /\ LET g == getWalletEntry(db, address)
       IN  IF g.err # NoErr
           THEN /\ trans' = trans
                /\ ret' = Ret("UpdateInput", t, << >>, FALSE, g.err)
           ELSE IF ~Trans_HasInput(trans[t], index)
           THEN /\ trans' = trans
                /\ ret' = Ret("UpdateInput", t, << >>, FALSE, "Index out of range")
           ELSE /\ trans' = [trans EXCEPT
                        ![t].rcds[index + 1] = g.we.rcd,
                        ![t].inputs[index + 1] =
                            [address |-> g.adr, amount |-> amount]]
                /\ ret' = Ret("UpdateInput", t, << >>, TRUE, NoErr)
    /\ UNCHANGED <<procs, db, b, panicked>>

AddOutput(t, address, amount) ==
    /\ ~panicked
    /\ Len(trans[t].outputs) < MaxOutputs
    /\ LET g == getWalletEntry(db, address)
       IN  IF g.err # NoErr
           THEN /\ trans' = trans
                /\ ret' = Ret("AddOutput", t, << >>, FALSE, g.err)
           ELSE /\ trans' = [trans EXCEPT ![t] = Trans_AddOutput(@, g.adr, amount)]
                /\ ret' = Ret("AddOutput", t, << >>, TRUE, NoErr)
    /\ UNCHANGED <<procs, db, b, panicked>>

\* Mutant: the entry-credit output is added before the address is looked up.
AddECOutput_AddsFirst(t, address, amount) ==
    /\ ~panicked
    /\ Len(trans[t].ecoutputs) < MaxOutputs
    /\ LET g == getWalletEntry(db, address)
       IN  /\ trans' = [trans EXCEPT ![t] = Trans_AddECOutput(@, address, amount)]
           /\ ret' = IF g.err # NoErr
                     THEN Ret("AddECOutput", t, << >>, FALSE, g.err)
                     ELSE Ret("AddECOutput", t, << >>, TRUE, NoErr)
    /\ UNCHANGED <<procs, db, b, panicked>>

AddECOutput(t, address, amount) ==
    /\ ~panicked
    /\ Len(trans[t].ecoutputs) < MaxOutputs
    /\ LET g == getWalletEntry(db, address)
       IN  IF g.err # NoErr
           THEN /\ trans' = trans
                /\ ret' = Ret("AddECOutput", t, << >>, FALSE, g.err)
           ELSE /\ trans' = [trans EXCEPT ![t] = Trans_AddECOutput(@, g.adr, amount)]
                /\ ret' = Ret("AddECOutput", t, << >>, TRUE, NoErr)
    /\ UNCHANGED <<procs, db, b, panicked>>

\* SCWallet.Validate: true when the transaction's verdict is WELL_FORMED,
\* false (and no error) otherwise.
Validate(t) ==
    /\ ~panicked
    /\ ret' = Ret("Validate", t, << >>, Trans_Validate(trans[t]) = WELL_FORMED, NoErr)
    /\ UNCHANGED <<procs, db, trans, b, panicked>>

(***************************************************************************)
(* Wallet: signing.                                                        *)
(***************************************************************************)
\* Mutant: the signature is made with the entry's public key.
RECURSIVE SignLoop_PublicKey(_, _, _, _, _)
SignLoop_PublicKey(d, data, tx, i, numSigs) ==
    IF i >= Len(tx.rcds)
    THEN [tx |-> tx, numSigs |-> numSigs, panic |-> FALSE]
    ELSE LET rcd == tx.rcds[i + 1]
         IN  IF rcd.type # 1
             THEN SignLoop_PublicKey(d, data, tx, i + 1, numSigs)
             ELSE LET we == GetRaw(d, W_ADDRESS_PUB_KEY, rcd.pub)
                  IN  IF we = Nil
                      THEN [tx |-> tx, numSigs |-> numSigs, panic |-> TRUE]
                      ELSE SignLoop_PublicKey(d, data,
                               Trans_SetSignatureBlock(tx, i,
                                   <<Sign(we.public, data)>>),
                               i + 1, numSigs + 1)

\* The loop over the redeem conditions, from position i on.  A single-key
\* condition is looked up in the public-key index and the result asserted to
\* be a *WalletEntry: the assertion panics when the lookup returned nil.
RECURSIVE SignLoop(_, _, _, _, _)
SignLoop(d, data, tx, i, numSigs) ==
    IF i >= Len(tx.rcds)
    THEN [tx |-> tx, numSigs |-> numSigs, panic |-> FALSE]
    ELSE LET rcd == tx.rcds[i + 1]
         IN  IF rcd.type # 1
             THEN SignLoop(d, data, tx, i + 1, numSigs)
             ELSE LET we == GetRaw(d, W_ADDRESS_PUB_KEY, rcd.pub)
                  IN  IF we = Nil
                      THEN [tx |-> tx, numSigs |-> numSigs, panic |-> TRUE]
                      ELSE SignLoop(d, data,
                               Trans_SetSignatureBlock(tx, i,
                                   <<Sign(we.private, data)>>),
                               i + 1, numSigs + 1)

SignInputs(t) ==
    /\ ~panicked
    /\ LET data == Trans_MarshalBinarySig(trans[t])
           r == SignLoop(db, data, trans[t], 0, 0)
       IN  /\ trans' = [trans EXCEPT ![t] = r.tx]
           /\ panicked' = r.panic
           /\ ret' = IF r.panic
                     THEN Ret("SignInputs", t, << >>, FALSE, "panic")
                     ELSE Ret("SignInputs", t, << >>,
                              r.numSigs = Len(trans[t].inputs), NoErr)
    /\ UNCHANGED <<procs, db, b>>

(***************************************************************************)
(* FBlock: construction, admission, setters.                               *)
(***************************************************************************)
NewFBlock(ExchRate, DBHeight) ==
    [MerkleRoot |-> ZeroHash, PrevBlock |-> ZeroHash, PrevHash3 |-> ZeroHash,
     UTXOCommit |-> ZeroHash, ExchRate |-> ExchRate, DBHeight |-> DBHeight,
     transactions |-> << >>]

CoinbaseShape(tx) ==
    /\ Len(tx.inputs) = 0
    /\ Len(tx.ecoutputs) = 0
    /\ Len(tx.rcds) = 0
    /\ Len(tx.sigBlocks) = 0

\* Mutant: the entry-credit outputs are not looked at.
AddCoinbase_NoECOutputCheck(t) ==
    /\ ~panicked
    /\ IF \/ Len(b.transactions) # 0
          \/ Len(trans[t].inputs) # 0
          \/ Len(trans[t].rcds) # 0
          \/ Len(trans[t].sigBlocks) # 0
       THEN /\ b' = b
            /\ ret' = Ret("AddCoinbase", t, << >>, FALSE,
                          "Cannot have inputs or EC outputs in the coinbase.")
       ELSE /\ Len(b.transactions) < MaxBlockTx
            /\ b' = [b EXCEPT !.transactions = Append(@, t)]
            /\ ret' = Ret("AddCoinbase", t, << >>, TRUE, NoErr)
    /\ UNCHANGED <<procs, db, trans, panicked>>

AddCoinbase(t) ==
    /\ ~panicked
    /\ IF Len(b.transactions) # 0 \/ ~CoinbaseShape(trans[t])
       THEN /\ b' = b
            /\ ret' = Ret("AddCoinbase", t, << >>, FALSE,
                          "Cannot have inputs or EC outputs in the coinbase.")
       ELSE /\ Len(b.transactions) < MaxBlockTx
            /\ b' = [b EXCEPT !.transactions = Append(@, t)]
            /\ ret' = Ret("AddCoinbase", t, << >>, TRUE, NoErr)
    /\ UNCHANGED <<procs, db, trans, panicked>>

\* Mutant: a transaction is also rejected when a signature block is not the
\* signature of its signable payload.
AddTransaction_ChecksSignatures(t) ==
    /\ ~panicked
    /\ LET tx == trans[t]
           signed == \A i \in 1..Len(tx.sigBlocks) :
                        \E k \in Keys :
                            tx.sigBlocks[i] =
                                <<Sign(PriKey(k), Trans_MarshalBinarySig(tx))>>
       IN  IF Trans_Validate(tx) # WELL_FORMED \/ ~signed
           THEN /\ b' = b
                /\ ret' = Ret("AddTransaction", t, << >>, FALSE, "Invalid Transaction")
           ELSE /\ Len(b.transactions) < MaxBlockTx
                /\ b' = [b EXCEPT !.transactions = Append(@, t)]
                /\ ret' = Ret("AddTransaction", t, << >>, TRUE, NoErr)
    /\ UNCHANGED <<procs, db, trans, panicked>>

\* Mutant: the transaction is put in front of the ones the block holds.
AddTransaction_Prepends(t) ==
    /\ ~panicked
    /\ IF Trans_Validate(trans[t]) # WELL_FORMED
       THEN /\ b' = b
            /\ ret' = Ret("AddTransaction", t, << >>, FALSE, "Invalid Transaction")
       ELSE /\ Len(b.transactions) < MaxBlockTx
            /\ b' = [b EXCEPT !.transactions = <<t>> \o @]
            /\ ret' = Ret("AddTransaction", t, << >>, TRUE, NoErr)
    /\ UNCHANGED <<procs, db, trans, panicked>>

\* Mutant: the transaction is appended before it is validated.
AddTransaction_AppendFirst(t) ==
    /\ ~panicked
    /\ Len(b.transactions) < MaxBlockTx
    /\ b' = [b EXCEPT !.transactions = Append(@, t)]
    /\ ret' = IF Trans_Validate(trans[t]) # WELL_FORMED
              THEN Ret("AddTransaction", t, << >>, FALSE, "Invalid Transaction")
              ELSE Ret("AddTransaction", t, << >>, TRUE, NoErr)
    /\ UNCHANGED <<procs, db, trans, panicked>>

AddTransaction(t) ==
    /\ ~panicked
    /\ IF Trans_Validate(trans[t]) # WELL_FORMED
       THEN /\ b' = b
            /\ ret' = Ret("AddTransaction", t, << >>, FALSE, "Invalid Transaction")
       ELSE /\ Len(b.transactions) < MaxBlockTx
            /\ b' = [b EXCEPT !.transactions = Append(@, t)]
            /\ ret' = Ret("AddTransaction", t, << >>, TRUE, NoErr)
    /\ UNCHANGED <<procs, db, trans, panicked>>

SetExchRate(rate) ==
    /\ ~panicked
    /\ b' = [b EXCEPT !.ExchRate = rate]
    /\ ret' = Ret("SetExchRate", 0, << >>, TRUE, NoErr)
    /\ UNCHANGED <<procs, db, trans, panicked>>

SetDBHeight(dbheight) ==
    /\ ~panicked
    /\ b' = [b EXCEPT !.DBHeight = dbheight]
    /\ ret' = Ret("SetDBHeight", 0, << >>, TRUE, NoErr)
    /\ UNCHANGED <<procs, db, trans, panicked>>

\* fct.NewHash(hash): a fresh Hash holding the bytes.
SetPrevBlock(hash) ==
    /\ ~panicked
    /\ b' = [b EXCEPT !.PrevBlock = hash]
    /\ ret' = Ret("SetPrevBlock", 0, << >>, TRUE, NoErr)
    /\ UNCHANGED <<procs, db, trans, panicked>>

\* b.PrevHash3.SetBytes(hash): a method call on the field, which panics on nil.
SetPrevHash3(hash) ==
    /\ ~panicked
    /\ IF b.PrevHash3 = NilHash
       THEN /\ b' = b
            /\ panicked' = TRUE
            /\ ret' = Ret("SetPrevHash3", 0, << >>, FALSE, "panic")
       ELSE /\ b' = [b EXCEPT !.PrevHash3 = hash]
            /\ panicked' = FALSE
            /\ ret' = Ret("SetPrevHash3", 0, << >>, TRUE, NoErr)
    /\ UNCHANGED <<procs, db, trans>>

SetUTXOCommit(hash) ==
    /\ ~panicked
    /\ IF b.UTXOCommit = NilHash
       THEN /\ b' = b
            /\ panicked' = TRUE
            /\ ret' = Ret("SetUTXOCommit", 0, << >>, FALSE, "panic")
       ELSE /\ b' = [b EXCEPT !.UTXOCommit = hash]
            /\ panicked' = FALSE
            /\ ret' = Ret("SetUTXOCommit", 0, << >>, TRUE, NoErr)
    /\ UNCHANGED <<procs, db, trans>>

(***************************************************************************)
(* fct.Transaction: decoding and equality.                                 *)
(***************************************************************************)
RECURSIVE UnmarshalAddresses(_, _)
UnmarshalAddresses(data, n) ==
    IF n = 0 THEN [err |-> FALSE, items |-> << >>, rest |-> data]
    ELSE IF Len(data) < ADDRESS_LENGTH + 8
    THEN [err |-> TRUE, items |-> << >>, rest |-> data]
    ELSE LET a == [address |-> Take(data, ADDRESS_LENGTH),
                   amount |-> FromBigEndian(
                       SubSeq(data, ADDRESS_LENGTH + 1, ADDRESS_LENGTH + 8))]
             r == UnmarshalAddresses(Drop(data, ADDRESS_LENGTH + 8), n - 1)
         IN  [err |-> r.err, items |-> <<a>> \o r.items, rest |-> r.rest]

RECURSIVE UnmarshalSignatures(_, _)
UnmarshalSignatures(data, n) ==
    IF n = 0 THEN [err |-> FALSE, items |-> << >>, rest |-> data]
    ELSE IF Len(data) < SIGNATURE_LENGTH
    THEN [err |-> TRUE, items |-> << >>, rest |-> data]
    ELSE LET r == UnmarshalSignatures(Drop(data, SIGNATURE_LENGTH), n - 1)
         IN  [err |-> r.err,
              items |-> <<Take(data, SIGNATURE_LENGTH)>> \o r.items,
              rest |-> r.rest]

\* The redeem conditions and signature blocks of n inputs.  The first byte
\* of a redeem condition is its type; a type that is none of the known ones
\* is an error.
RECURSIVE UnmarshalRCDs(_, _)
UnmarshalRCDs(data, n) ==
    IF n = 0
    THEN [err |-> FALSE, rcds |-> << >>, sigBlocks |-> << >>, rest |-> data]
    ELSE IF Len(data) < 1 + ADDRESS_LENGTH + 1
    THEN [err |-> TRUE, rcds |-> << >>, sigBlocks |-> << >>, rest |-> data]
    ELSE IF data[1] \notin {1, 2}
    THEN [err |-> TRUE, rcds |-> << >>, sigBlocks |-> << >>, rest |-> data]
    ELSE LET rcd == [type |-> data[1],
                     pub |-> SubSeq(data, 2, 1 + ADDRESS_LENGTH)]
             d1 == Drop(data, 1 + ADDRESS_LENGTH)
             sg == UnmarshalSignatures(Tail(d1), d1[1])
         IN  IF sg.err
             THEN [err |-> TRUE, rcds |-> << >>, sigBlocks |-> << >>,
                   rest |-> data]
             ELSE LET r == UnmarshalRCDs(sg.rest, n - 1)
                  IN  [err |-> r.err, rcds |-> <<rcd>> \o r.rcds,
                       sigBlocks |-> <<sg.items>> \o r.sigBlocks,
                       rest |-> r.rest]

Trans_UnmarshalBinaryData(data) ==
    IF Len(data) < 3
    THEN [err |-> TRUE, tx |-> NewTransaction, rest |-> data]
    ELSE LET ins == UnmarshalAddresses(Drop(data, 3), data[1])
             outs == UnmarshalAddresses(ins.rest, data[2])
             ecs == UnmarshalAddresses(outs.rest, data[3])
             rs == UnmarshalRCDs(ecs.rest, data[1])
         IN  IF ins.err \/ outs.err \/ ecs.err \/ rs.err
             THEN [err |-> TRUE, tx |-> NewTransaction, rest |-> data]
             ELSE [err |-> FALSE,
                   tx |-> [inputs |-> ins.items, outputs |-> outs.items,
                           ecoutputs |-> ecs.items, rcds |-> rs.rcds,
                           sigBlocks |-> rs.sigBlocks],
                   rest |-> rs.rest]

\* Transaction.IsEqual: equal in all of its structures, in order.
Trans_IsEqual(t1, t2) == t1 = t2

(***************************************************************************)
(* FBlock: the binary codec.  The operators work on a block whose          *)
(* transactions field holds the transaction objects themselves             *)
(* (BlockValue dereferences the block's pointers); an entry of a           *)
(* transactions slice that was made but not yet filled is NilTrans.        *)
(***************************************************************************)
FACTOID_CHAINID == Rep(0, ADDRESS_LENGTH - 1) \o <<15>>
NilTrans == Nil

BlockValue(blk, T) ==
    [blk EXCEPT !.transactions =
        [i \in 1..Len(blk.transactions) |-> T[blk.transactions[i]]]]

\* new(FBlock): every field is the zero value, the hashes are nil.
NewBlockObject ==
    [MerkleRoot |-> NilHash, PrevBlock |-> NilHash, PrevHash3 |-> NilHash,
     UTXOCommit |-> NilHash, ExchRate |-> 0, DBHeight |-> 0,
     transactions |-> << >>]

\* MarshalTrans: the transactions' bytes in order; the first failure ends
\* it with (nil, err).  A nil entry panics (a method call on a nil interface).
RECURSIVE MarshalTrans(_)
MarshalTrans(txs) ==
    IF txs = << >> THEN [err |-> FALSE, panic |-> FALSE, data |-> << >>]
    ELSE IF Head(txs) = NilTrans
    THEN [err |-> FALSE, panic |-> TRUE, data |-> << >>]
    ELSE LET m == Trans_MarshalBinary(Head(txs))
         IN  IF m.err THEN [err |-> TRUE, panic |-> FALSE, data |-> << >>]
             ELSE LET r == MarshalTrans(Tail(txs))
                  IN  [err |-> r.err, panic |-> r.panic,
                       data |-> IF r.err \/ r.panic THEN << >>
                                ELSE m.data \o r.data]

Materialize(h) == IF h = NilHash THEN ZeroHash ELSE h

\* Mutant: the previous-block hash and the secondary hash are written in
\* the other order.
MarshalBinary_HashesSwapped(blk) ==
    LET blk1 == [blk EXCEPT !.MerkleRoot = Materialize(@),
                            !.PrevBlock = Materialize(@),
                            !.PrevHash3 = Materialize(@),
                            !.UTXOCommit = Materialize(@)]
        mt == MarshalTrans(blk.transactions)
        transdata == mt.data
    IN  [err |-> FALSE, panic |-> mt.panic, blk |-> blk1,
         data |-> FACTOID_CHAINID
                  \o blk1.MerkleRoot
                  \o blk1.PrevHash3
                  \o blk1.PrevBlock
                  \o BigEndian(blk1.ExchRate, 8)
                  \o BigEndian(blk1.DBHeight, 4)
                  \o blk1.UTXOCommit
                  \o BigEndian(Len(blk1.transactions), 8)
                  \o BigEndian(Len(transdata), 8)
                  \o transdata]

\* Mutant: the length of the transaction bytes is written before the
\* transaction count.
MarshalBinary_LengthFirst(blk) ==
    LET blk1 == [blk EXCEPT !.MerkleRoot = Materialize(@),
                            !.PrevBlock = Materialize(@),
                            !.PrevHash3 = Materialize(@),
                            !.UTXOCommit = Materialize(@)]
        mt == MarshalTrans(blk.transactions)
        transdata == mt.data
    IN  [err |-> FALSE, panic |-> mt.panic, blk |-> blk1,
         data |-> FACTOID_CHAINID
                  \o blk1.MerkleRoot
                  \o blk1.PrevBlock
                  \o blk1.PrevHash3
                  \o BigEndian(blk1.ExchRate, 8)
                  \o BigEndian(blk1.DBHeight, 4)
                  \o blk1.UTXOCommit
                  \o BigEndian(Len(transdata), 8)
                  \o BigEndian(Len(blk1.transactions), 8)
                  \o transdata]

\* Mutant: a hash that is nil is replaced in the block, and not written.
MarshalBinary_NilHashOmitted(blk) ==
    LET blk1 == [blk EXCEPT !.MerkleRoot = Materialize(@),
                            !.PrevBlock = Materialize(@),
                            !.PrevHash3 = Materialize(@),
                            !.UTXOCommit = Materialize(@)]
        Written(h) == IF h = NilHash THEN << >> ELSE h
        mt == MarshalTrans(blk.transactions)
        transdata == mt.data
    IN  [err |-> FALSE, panic |-> mt.panic, blk |-> blk1,
         data |-> FACTOID_CHAINID
                  \o Written(blk.MerkleRoot)
                  \o Written(blk.PrevBlock)
                  \o Written(blk.PrevHash3)
                  \o BigEndian(blk1.ExchRate, 8)
                  \o BigEndian(blk1.DBHeight, 4)
                  \o Written(blk.UTXOCommit)
                  \o BigEndian(Len(blk1.transactions), 8)
                  \o BigEndian(Len(transdata), 8)
                  \o transdata]

\* MarshalBinary: the bytes, the error, and the block as the call leaves it
\* (nil hashes replaced by new(fct.Hash)).  The error of MarshalTrans is not
\* looked at: transdata is then nil, of length 0.
MarshalBinary(blk) ==
    LET blk1 == [blk EXCEPT !.MerkleRoot = Materialize(@),
                            !.PrevBlock = Materialize(@),
                            !.PrevHash3 = Materialize(@),
                            !.UTXOCommit = Materialize(@)]
        mt == MarshalTrans(blk.transactions)
        transdata == mt.data
    IN  [err |-> FALSE, panic |-> mt.panic, blk |-> blk1,
         data |-> FACTOID_CHAINID
                  \o blk1.MerkleRoot
                  \o blk1.PrevBlock
                  \o blk1.PrevHash3
                  \o BigEndian(blk1.ExchRate, 8)
                  \o BigEndian(blk1.DBHeight, 4)
                  \o blk1.UTXOCommit
                  \o BigEndian(Len(blk1.transactions), 8)
                  \o BigEndian(Len(transdata), 8)
                  \o transdata]

\* Hash.UnmarshalBinaryData: ADDRESS_LENGTH bytes, an error when fewer are left.
UnmarshalHash(data) ==
    IF Len(data) < ADDRESS_LENGTH
    THEN [err |-> TRUE, hash |-> ZeroHash, rest |-> data]
    ELSE [err |-> FALSE, hash |-> Take(data, ADDRESS_LENGTH),
          rest |-> Drop(data, ADDRESS_LENGTH)]

\* b.String(): MarshalText calls MarshalTrans, which panics on a nil entry.
StringPanics(blk) == MarshalTrans(blk.transactions).panic

\* Mutant: the loop ends with no remaining bytes (return nil, nil).
RECURSIVE UnmarshalTransLoop_NoRest(_, _, _, _)
UnmarshalTransLoop_NoRest(blk, data, txs, i) ==
    IF i >= Len(txs)
    THEN [err |-> FALSE, panic |-> FALSE, txs |-> txs, rest |-> << >>]
    ELSE LET u == Trans_UnmarshalBinaryData(data)
         IN  IF u.err
             THEN [err |-> TRUE,
                   panic |-> StringPanics([blk EXCEPT !.transactions = txs]),
                   txs |-> txs, rest |-> << >>]
             ELSE UnmarshalTransLoop_NoRest(blk, u.rest,
                      [txs EXCEPT ![i + 1] = u.tx], i + 1)

\* The decoding loop, at position i (0-based) of the slice txs of length cnt.
RECURSIVE UnmarshalTransLoop(_, _, _, _)
UnmarshalTransLoop(blk, data, txs, i) ==
    IF i >= Len(txs)
    THEN [err |-> FALSE, panic |-> FALSE, txs |-> txs, rest |-> data]
    ELSE LET u == Trans_UnmarshalBinaryData(data)
         IN  IF u.err
             THEN [err |-> TRUE,
                   panic |-> StringPanics([blk EXCEPT !.transactions = txs]),
                   txs |-> txs, rest |-> << >>]
             ELSE UnmarshalTransLoop(blk, u.rest,
                      [txs EXCEPT ![i + 1] = u.tx], i + 1)

Result(err, panic, blk, rest) ==
    [err |-> err, panic |-> panic, blk |-> blk, rest |-> rest]

\* UnmarshalBinaryData after the chain ID: d0 is data[32:].
UnmarshalFields(blk, d0) ==
    LET mr == UnmarshalHash(d0)
        b1 == [blk EXCEPT !.MerkleRoot = mr.hash]
    IN  IF mr.err THEN Result(TRUE, FALSE, b1, << >>) ELSE
    LET pb == UnmarshalHash(mr.rest)
        b2 == [b1 EXCEPT !.PrevBlock = pb.hash]
    IN  IF pb.err THEN Result(TRUE, FALSE, b2, << >>) ELSE
    LET ph == UnmarshalHash(pb.rest)
        b3 == [b2 EXCEPT !.PrevHash3 = ph.hash]
    IN  IF ph.err THEN Result(TRUE, FALSE, b3, << >>) ELSE
    IF Len(ph.rest) < 8 THEN Result(FALSE, TRUE, b3, << >>) ELSE
    LET b4 == [b3 EXCEPT !.ExchRate = FromBigEndian(Take(ph.rest, 8))]
        d4 == Drop(ph.rest, 8)
    IN  IF Len(d4) < 4 THEN Result(FALSE, TRUE, b4, << >>) ELSE
    LET b5 == [b4 EXCEPT !.DBHeight = FromBigEndian(Take(d4, 4))]
        uc == UnmarshalHash(Drop(d4, 4))
        b6 == [b5 EXCEPT !.UTXOCommit = uc.hash]
    IN  IF uc.err THEN Result(TRUE, FALSE, b6, << >>) ELSE
    IF Len(uc.rest) < 8 THEN Result(FALSE, TRUE, b6, << >>) ELSE
    LET cnt == FromBigEndian(Take(uc.rest, 8))
        d7 == Drop(uc.rest, 8)
    IN  IF Len(d7) < 8 THEN Result(FALSE, TRUE, b6, << >>) ELSE
    LET d8 == Drop(d7, 8)
        lp == UnmarshalTransLoop(b6, d8, [i \in 1..cnt |-> NilTrans], 0)
    IN  Result(lp.err, lp.panic, [b6 EXCEPT !.transactions = lp.txs], lp.rest)

\* Mutant: only the first byte of the data is compared with the chain ID.
UnmarshalBinaryData_FirstByteOnly(blk, data) ==
    IF Len(data) < ADDRESS_LENGTH THEN Result(FALSE, TRUE, blk, << >>)
    ELSE IF data[1] # FACTOID_CHAINID[1]
    THEN Result(TRUE, FALSE, blk, << >>)
    ELSE UnmarshalFields(blk, Drop(data, 32))

\* UnmarshalBinaryData: the error, whether the call panicked, the block as
\* the call leaves it, and the remaining bytes.  Slicing past the end of the
\* data panics.
UnmarshalBinaryData(blk, data) ==
    IF Len(data) < ADDRESS_LENGTH THEN Result(FALSE, TRUE, blk, << >>)
    ELSE IF Take(data, ADDRESS_LENGTH) # FACTOID_CHAINID
    THEN Result(TRUE, FALSE, blk, << >>)
    ELSE UnmarshalFields(blk, Drop(data, 32))

\* IsEqual: "nil" when no difference is found, "differs" for a non-nil list,
\* "panic" when the call panics (a method call on a nil hash, or an index
\* past the end of the other block's transactions).
RECURSIVE TransEqualFrom(_, _, _)
TransEqualFrom(txs1, txs2, i) ==
    IF i > Len(txs1) THEN "nil"
    ELSE IF i > Len(txs2) THEN "panic"
    ELSE IF ~Trans_IsEqual(txs1[i], txs2[i]) THEN "differs"
    ELSE TransEqualFrom(txs1, txs2, i + 1)

IsEqual(b1, b2) ==
    IF b1.ExchRate # b2.ExchRate \/ b1.DBHeight # b2.DBHeight THEN "differs"
    ELSE IF b1.MerkleRoot = NilHash THEN "panic"
    ELSE IF b1.MerkleRoot # b2.MerkleRoot THEN "differs"
    ELSE IF b1.PrevBlock = NilHash THEN "panic"
    ELSE IF b1.PrevBlock # b2.PrevBlock THEN "differs"
    ELSE IF b1.PrevHash3 = NilHash THEN "panic"
    ELSE IF b1.PrevHash3 # b2.PrevHash3 THEN "differs"
    ELSE IF b1.UTXOCommit = NilHash THEN "panic"
    ELSE IF b1.UTXOCommit # b2.UTXOCommit THEN "differs"
    ELSE TransEqualFrom(b1.transactions, b2.transactions, 1)

(***************************************************************************)
(* Calls of the codec and of IsEqual on the block b and on a second block  *)
(* object, the receiver of a decode (scb2 of Test_create_block).  The      *)
(* second block lives in ret: arg.blk is the receiver as the decode left   *)
(* it.  arg.last is the output of the latest MarshalBinary of b since the  *)
(* latest wallet, admission or setter call; arg.before, of a MarshalBinary *)
(* call, is that output as it was before the call, and arg.afterDecode     *)
(* says that the call before it was a decode.                              *)
(***************************************************************************)
CodecOps == {"MarshalBinary", "UnmarshalBinaryData", "IsEqual"}
\* No bytes: a nil slice, and the value of arg.last when b was not marshalled.
NoData == << >>
LastMarshal == IF ret.op \in CodecOps THEN ret.arg.last ELSE NoData
Outcome(err, panic) == IF panic THEN "panic" ELSE IF err THEN "error" ELSE NoErr

\* data, err := b.MarshalBinary().  The call replaces the nil hashes of b.
B_MarshalBinary ==
    /\ ~panicked
    /\ LET m == MarshalBinary(BlockValue(b, trans))
       IN  /\ b' = [b EXCEPT !.MerkleRoot = m.blk.MerkleRoot,
                             !.PrevBlock = m.blk.PrevBlock,
                             !.PrevHash3 = m.blk.PrevHash3,
                             !.UTXOCommit = m.blk.UTXOCommit]
           /\ panicked' = m.panic
           /\ ret' = Ret("MarshalBinary", 0,
                         [data |-> IF m.err \/ m.panic THEN NoData ELSE m.data,
                          before |-> LastMarshal,
                          afterDecode |-> ret.op = "UnmarshalBinaryData",
                          last |-> IF m.err \/ m.panic THEN LastMarshal
                                   ELSE m.data],
                         ~m.err /\ ~m.panic, Outcome(m.err, m.panic))
    /\ UNCHANGED <<procs, db, trans>>

\* rest, err := recv.UnmarshalBinaryData(data), recv a block object other
\* than b.  kind and extra say how data was made.
B_UnmarshalBinaryData(recv, in) ==
    /\ ~panicked
    /\ LET u == UnmarshalBinaryData(recv, in.data)
       IN  /\ panicked' = u.panic
           /\ ret' = Ret("UnmarshalBinaryData", 0,
                         [kind |-> in.kind, data |-> in.data,
                          extra |-> in.extra, recv |-> recv,
                          blk |-> u.blk,
                          rest |-> IF u.err \/ u.panic THEN NoData ELSE u.rest,
                          last |-> LastMarshal],
                         ~u.err /\ ~u.panic, Outcome(u.err, u.panic))
    /\ UNCHANGED <<procs, db, trans, b>>

\* b1.IsEqual(b2) on two block objects.
B_IsEqual(b1, b2) ==
    /\ ~panicked
    /\ LET r == IsEqual(b1, b2)
       IN  /\ panicked' = (r = "panic")
           /\ ret' = Ret("IsEqual", 0,
                         [b1 |-> b1, b2 |-> b2, last |-> LastMarshal],
                         r = "nil", r)
    /\ UNCHANGED <<procs, db, trans, b>>

(***************************************************************************)
(* Specifications.                                                         *)
(***************************************************************************)
Init ==
    /\ db = EmptyDB
    /\ trans = << >>
    /\ b = NewFBlock(InitExchRate, InitDBHeight)
    /\ ret = Ret("Init", 0, << >>, TRUE, NoErr)
    /\ panicked = FALSE
    /\ procs = [p \in Procs |-> Idle]

Addresses == { AddressOfRCD(NewRCD_1(PubKey(k))) : k \in Keys }
\* The addresses outputs are paid to: the address of the first key pair.
OutAddresses == { AddressOfRCD(NewRCD_1(PubKey(1))) }
HashInputs == { ZeroHash, Rep(9, ADDRESS_LENGTH) }

InitialBlock == NewFBlock(InitExchRate, InitDBHeight)
Held == { b.transactions[i] : i \in 1..Len(b.transactions) }

Build(t) ==
    \/ \E a \in Addresses, amt \in Amounts : AddInput(t, a, amt)
    \/ \E i \in 0..MaxInputs, a \in Addresses, amt \in Amounts :
           UpdateInput(t, i, a, amt)
    \/ \E a \in OutAddresses, amt \in Amounts : AddOutput(t, a, amt)
    \/ \E a \in OutAddresses, amt \in Amounts : AddECOutput(t, a, amt)

\* One wallet, one block, calls in any order on any transaction object,
\* also on one the block already holds.
Next ==
    \/ \E name \in Names, m \in 1..2, n \in 1..2 : GenerateAddress(name, m, n)
    \/ CreateTransaction(MaxTx)
    \/ \E t \in Allocated : Build(t)
    \/ \E t \in Allocated : SignInputs(t)
    \/ \E t \in Allocated : AddCoinbase(t)
    \/ \E t \in Allocated : AddTransaction(t)

Spec == Init /\ [][Next]_vars

\* The wallet alone: every operation of the wallet, in any order.
NextWallet ==
    \/ \E name \in Names, m \in 1..2, n \in 1..2 : GenerateAddress(name, m, n)
    \/ CreateTransaction(MaxTx)
    \/ \E t \in Allocated : Build(t)
    \/ \E t \in Allocated : SignInputs(t)
    \/ \E t \in Allocated : Validate(t)

SpecWallet == Init /\ [][NextWallet]_vars

\* The construction order of Test_create_block: a transaction is built, then
\* signed, then handed to the block, and is not touched afterwards; the
\* block's metadata is set through its setters.
SetFields ==
    { f \in {"PrevBlock", "PrevHash3", "UTXOCommit", "ExchRate", "DBHeight"} :
        b[f] # InitialBlock[f] }
MaySet(f) == f \in SetFields \/ Cardinality(SetFields) < MaxSetFields
UnderConstruction(t) == t \notin Held /\ trans[t].sigBlocks = << >>
FirstName == <<97>>

Setters ==
    \/ MaySet("ExchRate") /\ \E r \in {InitExchRate, InitExchRate + 1} : SetExchRate(r)
    \/ MaySet("DBHeight") /\ \E h \in {InitDBHeight, InitDBHeight + 1} : SetDBHeight(h)
    \/ MaySet("PrevBlock") /\ \E h \in HashInputs : SetPrevBlock(h)
    \/ MaySet("PrevHash3") /\ \E h \in HashInputs : SetPrevHash3(h)
    \/ MaySet("UTXOCommit") /\ \E h \in HashInputs : SetUTXOCommit(h)

NextBuild ==
    \/ GenerateAddress(FirstName, 1, 1)
    \/ Allocated \subseteq Held /\ CreateTransaction(MaxBlockBuildTx)
    \/ \E t \in Allocated, a \in Addresses, amt \in Amounts :
           UnderConstruction(t) /\ AddInput(t, a, amt)
    \/ \E t \in Allocated, a \in OutAddresses, amt \in Amounts :
           UnderConstruction(t) /\ AddOutput(t, a, amt)
    \/ \E t \in Allocated : UnderConstruction(t) /\ SignInputs(t)
    \/ \E t \in Allocated : AddCoinbase(t)
    \/ \E t \in Allocated : AddTransaction(t)
    \/ Setters

SpecBuild == Init /\ [][NextBuild]_vars

(***************************************************************************)
(* A transaction that another party contributes to: an input and its       *)
(* redeem condition are added through the transaction's own AddInput and   *)
(* AddRCD (the calls AddInput of the wallet makes), with a redeem          *)
(* condition this wallet did not issue.                                    *)
(***************************************************************************)
ForeignRCDs == { NewRCD_1(PubKey(k)) : k \in Keys } \cup { RCD_2(PubKey(1)) }

ExternalAddInput(t, rcd, amount) ==
    /\ ~panicked
    /\ Len(trans[t].inputs) < MaxInputs
    /\ Len(trans[t].rcds) < MaxInputs
    /\ trans' = [trans EXCEPT ![t] =
            Trans_AddRCD(Trans_AddInput(@, AddressOfRCD(rcd), amount), rcd)]
    /\ ret' = Ret("ExternalAddInput", t, << >>, TRUE, NoErr)
    /\ UNCHANGED <<procs, db, b, panicked>>

NextMulti ==
    \/ Next
    \/ \E t \in Allocated, rcd \in ForeignRCDs, amt \in Amounts :
           ExternalAddInput(t, rcd, amt)

SpecMulti == Init /\ [][NextMulti]_vars

(***************************************************************************)
(* Concurrent callers of one wallet.  GenerateAddress is a sequence of      *)
(* store accesses; each GetRaw and PutRaw is taken to be atomic, and the   *)
(* callers' accesses interleave.                                           *)
(***************************************************************************)
\* Line 127: the name is looked up; a known name ends the call.
GA_CheckName(p, name) ==
    /\ procs[p].pc = "idle"
    /\ IF GetRaw(db, W_NAME_HASH, name) # Nil
       THEN /\ procs' = procs
            /\ ret' = Ret("GenerateAddress", 0, name, FALSE, "Duplicate Name")
       ELSE /\ procs' = [procs EXCEPT ![p].pc = "genkey",
                                      ![p].we = WalletEntry(name, << >>, << >>)]
            /\ ret' = ret
    /\ UNCHANGED <<db, trans, b, panicked>>

\* Lines 134-146: a key pair is generated until its public key is not in the
\* public-key index; the entry is filled in.
GA_UniqueKey(p) ==
    /\ procs[p].pc = "genkey"
    /\ \E kp \in UniqueKeys(db) :
           procs' = [procs EXCEPT ![p].pc = "recheck",
               ![p].we = WalletEntry(procs[p].we.name, kp.pub, kp.pri)]
    /\ UNCHANGED <<db, trans, b, ret, panicked>>

\* Line 152: the name is looked up again.
GA_RecheckName(p) ==
    /\ procs[p].pc = "recheck"
    /\ IF GetRaw(db, W_NAME_HASH, procs[p].we.name) = Nil
       THEN /\ procs' = [procs EXCEPT ![p].pc = "put_addr"]
            /\ ret' = ret
       ELSE /\ procs' = [procs EXCEPT ![p].pc = "idle", ![p].we = Nil]
            /\ ret' = Ret("GenerateAddress", 0, procs[p].we.name, FALSE,
                          "Should never get here!  This is disabled!")
    /\ UNCHANGED <<db, trans, b, panicked>>

\* Line 156.
GA_PutAddress(p) ==
    /\ procs[p].pc = "put_addr"
    /\ db' = PutRaw(db, W_ADDRESS_HASH, GetAddress(procs[p].we), procs[p].we)
    /\ procs' = [procs EXCEPT ![p].pc = "put_pub"]
    /\ UNCHANGED <<trans, b, ret, panicked>>

\* Line 157.
GA_PutPubKey(p) ==
    /\ procs[p].pc = "put_pub"
    /\ db' = PutRaw(db, W_ADDRESS_PUB_KEY, procs[p].we.public, procs[p].we)
    /\ procs' = [procs EXCEPT ![p].pc = "put_name"]
    /\ UNCHANGED <<trans, b, ret, panicked>>

\* Line 158, and the return.
GA_PutName(p) ==
    /\ procs[p].pc = "put_name"
    /\ db' = PutRaw(db, W_NAME_HASH, procs[p].we.name, procs[p].we)
    /\ procs' = [procs EXCEPT ![p].pc = "idle", ![p].we = Nil]
    /\ ret' = Ret("GenerateAddress", 0, procs[p].we.name, TRUE, NoErr)
    /\ UNCHANGED <<trans, b, panicked>>

\* A caller's lookup of an address (getWalletEntry), followed by lookups of
\* the entry it found under its name and its public key.
Lookup(p, address) ==
    /\ procs[p].pc = "idle"
    /\ LET g == getWalletEntry(db, address)
       IN  procs' = [procs EXCEPT ![p].seen =
               IF g.err # NoErr THEN Nil
               ELSE [entry |-> g.we,
                     byName |-> GetRaw(db, W_NAME_HASH, g.we.name),
                     byPubKey |-> GetRaw(db, W_ADDRESS_PUB_KEY, g.we.public)]]
    /\ UNCHANGED <<db, trans, b, ret, panicked>>

NextConc ==
    \E p \in Procs :
        \/ \E name \in Names : GA_CheckName(p, name)
        \/ GA_UniqueKey(p)
        \/ GA_RecheckName(p)
        \/ GA_PutAddress(p)
        \/ GA_PutPubKey(p)
        \/ GA_PutName(p)
        \/ \E a \in Addresses : Lookup(p, a)

SpecConc == Init /\ [][NextConc]_vars

(***************************************************************************)
(* The codec at work: a block is built (also a block made by new(FBlock),  *)
(* whose hashes are nil), marshalled, and the bytes, or bytes made from    *)
(* them, are decoded into a second block, which is compared with b.        *)
(***************************************************************************)
\* The bytes before the transactions, and before the transaction count.
HeaderLength == 5 * ADDRESS_LENGTH + 8 + 4 + 8 + 8
CountOffset == 5 * ADDRESS_LENGTH + 8 + 4
DeclaredCount(d) == FromBigEndian(SubSeq(d, CountOffset + 1, CountOffset + 8))
SetCount(d, n) == Take(d, CountOffset) \o BigEndian(n, 8) \o Drop(d, CountOffset + 8)
Alter(d, pos) == [d EXCEPT ![pos] = (@ + 1) % 256]

\* The position of the type byte of the first redeem condition at or after
\* the transaction that starts at off (0 when there is none).
RECURSIVE FirstRCD(_, _)
FirstRCD(d, off) ==
    IF off + 2 > Len(d) THEN 0
    ELSE LET body == off + 3 + (d[off] + d[off + 1] + d[off + 2]) * (ADDRESS_LENGTH + 8)
         IN  IF d[off] > 0 THEN (IF body <= Len(d) THEN body ELSE 0)
             ELSE FirstRCD(d, body)

Input(kind, data, extra) == [kind |-> kind, data |-> data, extra |-> extra]

\* The bytes d followed by more bytes (nothing, one byte, a second block).
StreamInputs(d) ==
    { Input("stream", d \o x, x) : x \in {NoData, <<7>>, d} }
\* Bytes that do not begin with the chain ID.
BadChainInputs(d) ==
    { Input("badchain", x, NoData) :
        x \in {Alter(d, 1), Alter(d, ADDRESS_LENGTH),
               Take(Alter(d, 1), ADDRESS_LENGTH)} }
\* Bytes whose header is that of d and in which a transaction does not
\* decode: the bytes end early, or a redeem condition has an unknown type.
BrokenInputs(d) ==
    { Input("broken", Take(d, n), NoData) :
        n \in {HeaderLength, Len(d) - 1} \cap (HeaderLength..(Len(d) - 1)) }
    \cup { Input("broken", [d EXCEPT ![p] = 0], NoData) :
             p \in {FirstRCD(d, HeaderLength + 1)} \ {0} }
\* Bytes of a block that differs from the block of d: one transaction less
\* is declared, or one byte of a field or of the last transaction differs.
OtherBlockInputs(d) ==
    (IF DeclaredCount(d) >= 1
     THEN { Input("other", SetCount(d, DeclaredCount(d) - 1), NoData) }
     ELSE {})
    \cup { Input("other", Alter(d, p), NoData) :
             p \in {3 * ADDRESS_LENGTH + 1, 4 * ADDRESS_LENGTH + 8}
                   \cup ({Len(d)} \ (1..HeaderLength)) }
DecodeInputs(d) ==
    StreamInputs(d) \cup BadChainInputs(d) \cup BrokenInputs(d)
        \cup OtherBlockInputs(d)

\* A decode has filled the second block.
Decoded == ret.op = "UnmarshalBinaryData" /\ ret.ok

\* The block is made by NewFBlock or by new(FBlock).
InitCodec ==
    /\ db = EmptyDB
    /\ trans = << >>
    /\ b \in {NewFBlock(InitExchRate, InitDBHeight), NewBlockObject}
    /\ ret = Ret("Init", 0, << >>, TRUE, NoErr)
    /\ panicked = FALSE
    /\ procs = [p \in Procs |-> Idle]

\* The block is mutable until it is handed to the codec: the building calls
\* come before the first codec call.  The order is that of
\* Test_create_block: the previous-block hash is set first (on the block
\* NewFBlock made), then the wallet
\* gets its address, then transactions are made one after the other, with
\* outputs before inputs and one input at most before signing.  An input
\* may also be added to a transaction the block already holds.
Building == ~panicked /\ ret.op \notin CodecOps
BuildInput(t) ==
    \/ UnderConstruction(t) /\ trans[t].inputs = << >>
    \/ t \in Held
BuildOutput(t) == UnderConstruction(t) /\ trans[t].inputs = << >>

\* After building, the codec calls: b is marshalled; its bytes, or bytes
\* made from them, are decoded into a new block; bytes with another chain ID
\* are also decoded into a block that a decode has filled; b and the second
\* block are compared.
NextCodec ==
    \/ Building /\ b = InitialBlock /\ SetPrevBlock(Rep(9, ADDRESS_LENGTH))
    \/ Building /\ trans = << >> /\ GenerateAddress(FirstName, 1, 1)
    \/ /\ Building /\ db # EmptyDB /\ Allocated \subseteq Held
       /\ CreateTransaction(MaxBlockBuildTx)
    \/ \E t \in Allocated, a \in OutAddresses, amt \in Amounts :
           Building /\ BuildInput(t) /\ AddInput(t, a, amt)
    \/ \E t \in Allocated, a \in OutAddresses, amt \in Amounts :
           Building /\ BuildOutput(t) /\ AddOutput(t, a, amt)
    \/ \E t \in Allocated : Building /\ UnderConstruction(t) /\ SignInputs(t)
    \/ \E t \in Allocated : Building /\ AddCoinbase(t)
    \/ \E t \in Allocated : Building /\ AddTransaction(t)
    \/ B_MarshalBinary
    \/ /\ ret.op = "MarshalBinary" /\ ret.ok
       /\ \E in \in DecodeInputs(ret.arg.data) :
              B_UnmarshalBinaryData(NewBlockObject, in)
    \/ /\ Decoded /\ ret.arg.kind = "stream" /\ ret.arg.extra = NoData
       /\ \E in \in BadChainInputs(ret.arg.last) :
              B_UnmarshalBinaryData(ret.arg.blk, in)
    \/ /\ Decoded /\ ret.arg.extra = NoData
       /\ \/ B_IsEqual(BlockValue(b, trans), ret.arg.blk)
          \/ B_IsEqual(ret.arg.blk, BlockValue(b, trans))

SpecCodec == InitCodec /\ [][NextCodec]_vars

(***************************************************************************)
(* Properties.                                                             *)
(***************************************************************************)
RoundTripOf(v) ==
    LET m == MarshalBinary(v)
        u == UnmarshalBinaryData(NewBlockObject, m.data)
        m2 == MarshalBinary(u.blk)
    IN  [marshalled |-> ~m.err /\ ~m.panic,
         decoded |-> ~u.err /\ ~u.panic,
         equal |-> IsEqual(v, u.blk),
         same |-> ~m2.err /\ ~m2.panic /\ m2.data = m.data,
         data |-> m.data]

\* C1: a block built by NewFBlock, successful AddCoinbase/AddTransaction
\* calls and the metadata setters marshals; the bytes decode into a fresh
\* block without error; IsEqual of the block and the decoded block is nil;
\* and the decoded block marshals to the same bytes.
C1_RoundTrip ==
    LET r == RoundTripOf(BlockValue(b, trans))
    IN  r.marshalled /\ r.decoded /\ r.equal = "nil" /\ r.same

\* A block with a coinbase, a signed two-input transaction after it and a
\* metadata field moved by a setter, whose bytes hold more than the header.
C1_Witness ==
    /\ Len(b.transactions) = 2
    /\ b.transactions[1] # b.transactions[2]
    /\ Len(trans[b.transactions[1]].outputs) = 1
    /\ Len(trans[b.transactions[2]].inputs) = 2
    /\ SetFields # {}
    /\ LET r == RoundTripOf(BlockValue(b, trans))
       IN  r.equal = "nil" /\ Len(r.data) > 5 * ADDRESS_LENGTH + 28

\* C2: AddCoinbase(t) returns (true, nil) exactly when the block holds no
\* transaction and t has no input, no entry-credit output, no redeem
\* condition and no signature block; after a success the block holds t, at
\* position 0, and nothing else.
C2_CoinbaseAdmission ==
    [][ret'.op = "AddCoinbase" =>
        LET tx == trans[ret'.tx]
        IN  /\ ret'.ok <=> /\ Len(b.transactions) = 0
                           /\ Len(tx.inputs) = 0
                           /\ Len(tx.ecoutputs) = 0
                           /\ Len(tx.rcds) = 0
                           /\ Len(tx.sigBlocks) = 0
            /\ ret'.ok <=> ret'.err = NoErr
            /\ ret'.ok => b'.transactions = <<ret'.tx>>]_vars

\* AddCoinbase has just admitted a transaction that carries an output.
C2_Witness ==
    /\ ret.op = "AddCoinbase"
    /\ ret.ok
    /\ b.transactions = <<ret.tx>>
    /\ Len(trans[ret.tx].outputs) = 1

\* C3: a call of AddCoinbase or AddTransaction that returns false leaves the
\* block (its transaction sequence and its metadata) and the transactions as
\* they were.
C3_RejectionLeavesBlock ==
    [][(ret'.op \in {"AddCoinbase", "AddTransaction"} /\ ~ret'.ok) =>
        /\ ret'.err # NoErr
        /\ b' = b
        /\ trans' = trans]_vars

\* AddTransaction has just rejected a transaction, on a block that holds a
\* transaction and has a metadata field moved by a setter.
C3_Witness ==
    /\ ret.op = "AddTransaction"
    /\ ~ret.ok
    /\ Len(b.transactions) > 0
    /\ SetFields # {}

\* C4 (as stated): every transaction the block holds, other than one admitted
\* through AddCoinbase, has the Validate verdict WELL_FORMED.  A transaction
\* at a position other than 0 was admitted through AddTransaction.
C4_HeldTransactionsWellFormed ==
    \A i \in 2..Len(b.transactions) :
        Trans_Validate(trans[b.transactions[i]]) = WELL_FORMED

\* The private key that ed25519 pairs with a public key.
PrivateKeyFor(pub) == (CHOOSE kp \in generateKey : kp.pub = pub).pri
\* Some entry of the key store holds the key pair of this public key.
KeyHeld(pub) ==
    \E name \in DOMAIN db[W_NAME_HASH] : db[W_NAME_HASH][name].public = pub
SingleKeyInputs(tx) ==
    /\ Len(tx.rcds) = Len(tx.inputs)
    /\ \A i \in 1..Len(tx.rcds) : tx.rcds[i].type = 1

\* C5: when every input of the transaction has a single-key redeem condition
\* whose key pair the key store holds, SignInputs returns (true, nil) and
\* leaves at every position the signature, by the private key of that
\* position's public key, of the transaction's signable payload.
C5_SigningCompleteness ==
    [][(/\ ret'.op = "SignInputs"
        /\ SingleKeyInputs(trans[ret'.tx])
        /\ \A i \in 1..Len(trans[ret'.tx].rcds) :
               KeyHeld(trans[ret'.tx].rcds[i].pub))
       => /\ ~panicked'
          /\ ret'.ok
          /\ ret'.err = NoErr
          /\ Len(trans'[ret'.tx].sigBlocks) = Len(trans[ret'.tx].inputs)
          /\ \A i \in 1..Len(trans[ret'.tx].inputs) :
                trans'[ret'.tx].sigBlocks[i] =
                    <<Sign(PrivateKeyFor(trans[ret'.tx].rcds[i].pub),
                           Trans_MarshalBinarySig(trans'[ret'.tx]))>>]_vars

\* SignInputs has just signed a transaction with two inputs of two
\* different keys, both held.
C5_Witness ==
    /\ ret.op = "SignInputs"
    /\ ret.ok
    /\ Len(trans[ret.tx].inputs) = 2
    /\ trans[ret.tx].rcds[1] # trans[ret.tx].rcds[2]
    /\ KeyHeld(trans[ret.tx].rcds[1].pub)
    /\ KeyHeld(trans[ret.tx].rcds[2].pub)
    /\ Len(trans[ret.tx].sigBlocks) = 2
    /\ trans[ret.tx].sigBlocks[1] # trans[ret.tx].sigBlocks[2]

AbsentPositions(tx) ==
    { i \in 1..Len(tx.rcds) :
        GetRaw(db, W_ADDRESS_PUB_KEY, tx.rcds[i].pub) = Nil }
SignedPositions(tx) ==
    { i \in 1..Len(tx.sigBlocks) : tx.sigBlocks[i] # << >> }

\* C6 (as stated): when exactly one of the k single-key inputs of a not yet
\* signed transaction has a public key that is not in the public-key index,
\* SignInputs does not panic, returns (false, nil) and installs k-1
\* signature blocks, none at the position of that input.
C6_PartialSigning ==
    [][(/\ ret'.op = "SignInputs"
        /\ SingleKeyInputs(trans[ret'.tx])
        /\ trans[ret'.tx].sigBlocks = << >>
        /\ Cardinality(AbsentPositions(trans[ret'.tx])) = 1)
       => /\ ~panicked'
          /\ ~ret'.ok
          /\ ret'.err = NoErr
          /\ SignedPositions(trans'[ret'.tx]) =
                (1..Len(trans[ret'.tx].inputs)) \ AbsentPositions(trans[ret'.tx])]_vars

\* C7: GenerateAddress with a name that is in the name index fails with the
\* duplicate-name error and leaves the three indexes as they were.
C7_DuplicateName ==
    [][(ret'.op = "GenerateAddress" /\ ret'.arg \in DOMAIN db[W_NAME_HASH])
       => /\ ~ret'.ok
          /\ ret'.err = "Duplicate Name"
          /\ db' = db]_vars

\* GenerateAddress has just refused a duplicate name in a store of two entries.
C7_Witness ==
    /\ ret.op = "GenerateAddress"
    /\ ret.err = "Duplicate Name"
    /\ ret.arg \in DOMAIN db[W_NAME_HASH]
    /\ Cardinality(DOMAIN db[W_NAME_HASH]) = 2

EntriesOf(d) == UNION { { d[bk][k] : k \in DOMAIN d[bk] } : bk \in Buckets }
IndexesConsistent(d) ==
    /\ \A e \in EntriesOf(d) :
          /\ GetRaw(d, W_NAME_HASH, e.name) = e
          /\ GetRaw(d, W_ADDRESS_HASH, AddressOfRCD(e.rcd)) = e
          /\ GetRaw(d, W_ADDRESS_PUB_KEY, e.public) = e
    /\ Cardinality(DOMAIN d[W_NAME_HASH]) = Cardinality(EntriesOf(d))
    /\ Cardinality(DOMAIN d[W_ADDRESS_HASH]) = Cardinality(EntriesOf(d))
    /\ Cardinality(DOMAIN d[W_ADDRESS_PUB_KEY]) = Cardinality(EntriesOf(d))
NothingOverwritten(d1, d2) ==
    \A bk \in Buckets : \A k \in DOMAIN d1[bk] :
        k \in DOMAIN d2[bk] /\ d2[bk][k] = d1[bk][k]

\* C8: after every GenerateAddress call, one after the other, every entry is
\* found under its name, its address hash and its public key, every key of
\* an index maps to one entry of its own, and no call replaces or removes
\* what an index held before.
C8_IndexesConsistent ==
    [][IndexesConsistent(db') /\ NothingOverwritten(db, db')]_vars

\* A second entry has just been registered next to the first.
C8_Witness ==
    /\ ret.op = "GenerateAddress"
    /\ ret.ok
    /\ Cardinality(EntriesOf(db)) = 2
    /\ IndexesConsistent(db)

\* C9 (as stated): no caller's lookup finds an entry under the address-hash
\* index that is not, at that moment, under the name index and the
\* public-key index as well.
C9_AtomicVisibility ==
    \A p \in Procs :
        procs[p].seen # Nil =>
            /\ procs[p].seen.byName = procs[p].seen.entry
            /\ procs[p].seen.byPubKey = procs[p].seen.entry

\* The entry of the key store that an address belongs to.
EntryOfAddress(a) ==
    CHOOSE e \in EntriesOf(db) : AddressOfRCD(e.rcd) = a

\* C10: in every transaction built with AddInput and UpdateInput the inputs
\* and the redeem conditions are as many, and the redeem condition at each
\* position is that of the key-store entry the input's address belongs to.
C10_InputsAligned ==
    \A t \in Allocated :
        /\ Len(trans[t].rcds) = Len(trans[t].inputs)
        /\ \A i \in 1..Len(trans[t].inputs) :
              /\ \E e \in EntriesOf(db) :
                     AddressOfRCD(e.rcd) = trans[t].inputs[i].address
              /\ trans[t].rcds[i] =
                     EntryOfAddress(trans[t].inputs[i].address).rcd

\* UpdateInput has just moved the first of two inputs to the other address.
C10_Witness ==
    /\ ret.op = "UpdateInput"
    /\ ret.ok
    /\ Len(trans[ret.tx].inputs) = 2
    /\ trans[ret.tx].inputs[1].address # trans[ret.tx].inputs[2].address
    /\ trans[ret.tx].sigBlocks # << >>

\* Two blocks are equal in the fields and transactions IsEqual is about.
SameBlocks(x, y) ==
    /\ x.ExchRate = y.ExchRate
    /\ x.DBHeight = y.DBHeight
    /\ x.MerkleRoot = y.MerkleRoot
    /\ x.PrevBlock = y.PrevBlock
    /\ x.PrevHash3 = y.PrevHash3
    /\ x.UTXOCommit = y.UTXOCommit
    /\ Len(x.transactions) = Len(y.transactions)
    /\ \A i \in 1..Len(x.transactions) :
           x.transactions[i] = y.transactions[i]

\* C11: b1.IsEqual(b2) does not crash, and returns nil exactly when the
\* two blocks have equal exchange rate, height, hashes, number of
\* transactions and transactions at every position; so it returns a non-nil
\* list when the transaction sequences differ in length, whichever is longer.
C11_IsEqual ==
    ret.op = "IsEqual" =>
        /\ ret.err # "panic"
        /\ (ret.err = "nil") <=> SameBlocks(ret.arg.b1, ret.arg.b2)

\* Bytes of at least ADDRESS_LENGTH that do not begin with the chain ID.
WrongChainID(data) ==
    Len(data) >= ADDRESS_LENGTH /\ Take(data, ADDRESS_LENGTH) # FACTOID_CHAINID

\* C12: decoding bytes whose first 32 bytes are not the chain ID fails with
\* an error, whatever follows them, and leaves the fields and the
\* transactions of the receiving block as they were.
C12_WrongChainID ==
    (ret.op = "UnmarshalBinaryData" /\ WrongChainID(ret.arg.data)) =>
        /\ ret.err = "error"
        /\ ret.arg.blk = ret.arg.recv

\* A block that holds a decoded transaction and a set previous-block hash
\* is given the bytes of a whole block in which only the last byte of the
\* chain ID differs.
C12_Witness ==
    /\ ret.op = "UnmarshalBinaryData" /\ WrongChainID(ret.arg.data)
    /\ ret.arg.data[1] = FACTOID_CHAINID[1]
    /\ Len(ret.arg.data) > HeaderLength
    /\ ret.arg.recv.transactions # << >>
    /\ ret.arg.recv.PrevBlock \notin {NilHash, ZeroHash}
    /\ ret.err = "error"

\* The bytes have the chain ID and a whole header that declares at least
\* one transaction, and one of the declared transactions does not decode.
TransactionFails(data) ==
    /\ Len(data) >= HeaderLength
    /\ Take(data, ADDRESS_LENGTH) = FACTOID_CHAINID
    /\ DeclaredCount(data) >= 1
    /\ UnmarshalTransLoop(NewBlockObject, Drop(data, HeaderLength),
                          [i \in 1..DeclaredCount(data) |-> NilTrans], 0).err

\* C13: when the bytes have a correct chain ID and header, declare at least
\* one transaction, and a declared transaction fails to decode,
\* UnmarshalBinaryData returns an error to its caller and does not crash.
C13_DecodeFailureIsError ==
    (ret.op = "UnmarshalBinaryData" /\ TransactionFails(ret.arg.data)) =>
        ret.err = "error"

\* A transaction held by b does not marshal.
HeldFailsToMarshal ==
    \E i \in 1..Len(b.transactions) :
        Trans_MarshalBinary(trans[b.transactions[i]]).err

\* C14: when a transaction held by the block fails to marshal, MarshalBinary
\* returns an error and no bytes; it does not return a nil error with bytes
\* that leave out a transaction its count field counts.
C14_MarshalFailureIsError ==
    (ret.op = "MarshalBinary" /\ HeldFailsToMarshal) =>
        /\ ret.err = "error"
        /\ ret.arg.data = NoData

\* The thresholds GenerateAddress has no case for.
Unsupported == { mn \in (1..2) \X (1..2) : mn # <<1, 1>> }

\* C15, as the code has it: GenerateAddress(name, m, n) with (m, n) other
\* than (1, 1) fails for every name and leaves the three indexes as they
\* were; the error is the not-supported error when the name is not
\* registered, and the duplicate-name error when it is (the name is looked
\* up first).
C15_UnsupportedThreshold ==
    [][\A name \in Names, mn \in Unsupported :
          GenerateAddress(name, mn[1], mn[2]) =>
              /\ db' = db
              /\ ~ret'.ok
              /\ ret'.err = IF GetRaw(db, W_NAME_HASH, name) # Nil
                            THEN "Duplicate Name" ELSE "Not this far yet!"]_vars

\* C15, as stated: the error is the not-supported error for every name.
C15_AsStated ==
    [][\A name \in Names, mn \in Unsupported :
          GenerateAddress(name, mn[1], mn[2]) =>
              /\ db' = db
              /\ ret'.err = "Not this far yet!"]_vars

\* A call with unsupported thresholds has failed on a key store that holds
\* an entry under another name.
C15_Witness ==
    /\ ret.op = "GenerateAddress"
    /\ ret.err = "Not this far yet!"
    /\ db # EmptyDB
    /\ ret.arg \notin DOMAIN db[W_NAME_HASH]

\* The block holds its transactions as they were admitted: a coinbase at
\* the first position, or a transaction whose shape is well-formed.
ValidlyConstructed ==
    \A i \in 1..Len(b.transactions) :
        LET tx == trans[b.transactions[i]]
        IN  \/ i = 1 /\ CoinbaseShape(tx)
            \/ Trans_Validate(tx) = WELL_FORMED

\* The decode was given the bytes of b followed by ret.arg.extra.
StreamDecode ==
    /\ ret.op = "UnmarshalBinaryData"
    /\ ret.arg.kind = "stream"
    /\ ret.arg.data = MarshalBinary(BlockValue(b, trans)).data \o ret.arg.extra

\* C16: for a validly constructed block b and any bytes rest, decoding
\* MarshalBinary(b) followed by rest succeeds and returns exactly rest.
C16_StreamingDecode ==
    (StreamDecode /\ ValidlyConstructed) =>
        /\ ret.ok
        /\ ret.arg.rest = ret.arg.extra

\* The bytes of a block with a coinbase and a signed transaction, followed
\* by the bytes of a second block, were decoded: the second block's bytes
\* are what is left.
C16_Witness ==
    /\ StreamDecode /\ ValidlyConstructed
    /\ Len(b.transactions) = 2
    /\ \E i \in 1..2 : trans[b.transactions[i]].inputs # << >>
    /\ Len(ret.arg.extra) > HeaderLength
    /\ ret.ok
    /\ ret.arg.rest = ret.arg.extra

\* The bytes d cut at the field boundaries of the block encoding.
Slice(d, from, width) == SubSeq(d, from + 1, from + width)
Layout(d) ==
    [chainID    |-> Slice(d, 0, ADDRESS_LENGTH),
     merkleRoot |-> Slice(d, ADDRESS_LENGTH, ADDRESS_LENGTH),
     prevBlock  |-> Slice(d, 2 * ADDRESS_LENGTH, ADDRESS_LENGTH),
     prevHash3  |-> Slice(d, 3 * ADDRESS_LENGTH, ADDRESS_LENGTH),
     exchRate   |-> FromBigEndian(Slice(d, 4 * ADDRESS_LENGTH, 8)),
     dbHeight   |-> FromBigEndian(Slice(d, 4 * ADDRESS_LENGTH + 8, 4)),
     utxoCommit |-> Slice(d, 4 * ADDRESS_LENGTH + 12, ADDRESS_LENGTH),
     count      |-> FromBigEndian(Slice(d, 5 * ADDRESS_LENGTH + 12, 8)),
     length     |-> FromBigEndian(Slice(d, 5 * ADDRESS_LENGTH + 20, 8)),
     transdata  |-> SubSeq(d, 5 * ADDRESS_LENGTH + 29, Len(d))]

\* C17: the output of MarshalBinary is the chain ID, the merkle root, the
\* previous-block hash, the secondary previous hash, the exchange rate, the
\* height, the UTXO commitment, the transaction count, the length of the
\* transaction bytes and the transaction bytes, in that order; the count is
\* the number of transactions of the block and the length is the number of
\* transaction bytes that follow it.
C17_FieldOrder ==
    LET v == BlockValue(b, trans)
        f == Layout(MarshalBinary(v).data)
    IN  /\ f.chainID = FACTOID_CHAINID
        /\ f.merkleRoot = v.MerkleRoot
        /\ f.prevBlock = v.PrevBlock
        /\ f.prevHash3 = v.PrevHash3
        /\ f.exchRate = v.ExchRate
        /\ f.dbHeight = v.DBHeight
        /\ f.utxoCommit = v.UTXOCommit
        /\ f.count = Len(v.transactions)
        /\ f.length = Len(f.transdata)
        /\ f.transdata =
               Concat([i \in 1..Len(v.transactions) |->
                          Trans_MarshalBinary(v.transactions[i]).data])

\* A block with a coinbase that pays an output and a signed transaction,
\* whose UTXO commitment a setter has moved from the zero hash: the count
\* field, 2, differs from the length field.
C17_Witness ==
    LET v == BlockValue(b, trans)
        f == Layout(MarshalBinary(v).data)
    IN  /\ Len(v.transactions) = 2
        /\ v.transactions[2].sigBlocks # << >>
        /\ v.UTXOCommit # ZeroHash
        /\ f.utxoCommit = v.UTXOCommit
        /\ f.count = 2
        /\ f.length > 2

C19_EntriesPersist ==
    [][/\ NothingOverwritten(db, db')
       /\ (db' # db => ret'.op = "GenerateAddress" /\ ret'.ok)]_vars

\* Two entries are registered, a transaction with an input of the first
\* has been signed, and Validate has found it well-formed: both entries are
\* still found under their names, address hashes and public keys.
C19_Witness ==
    /\ Cardinality(DOMAIN db[W_NAME_HASH]) = 2
    /\ IndexesConsistent(db)
    /\ ret.op = "Validate" /\ ret.ok
    /\ trans[ret.tx].sigBlocks # << >>

\* The transaction bytes in the output of MarshalBinary.
WrittenTransactions(blk, T) == Layout(MarshalBinary(BlockValue(blk, T)).data).transdata

\* C20: a successful AddCoinbase or AddTransaction puts its transaction
\* after the ones the block holds, and no other call changes the block's
\* transaction sequence: the sequence, which is the order the codec writes,
\* is the admitted transactions in call order, and a transaction keeps its
\* position (the coinbase position 0).
C20_AppendOnly ==
    [][IF ret'.op \in {"AddCoinbase", "AddTransaction"} /\ ret'.ok
       THEN /\ b'.transactions = Append(b.transactions, ret'.tx)
            /\ WrittenTransactions(b', trans') =
                   WrittenTransactions(b, trans)
                       \o Trans_MarshalBinary(trans'[ret'.tx]).data
       ELSE b'.transactions = b.transactions]_vars

\* A transaction with an input was admitted by AddTransaction after a
\* coinbase: the coinbase is at position 0 and the transaction after it.
C20_Witness ==
    /\ ret.op = "AddTransaction" /\ ret.ok
    /\ Len(b.transactions) = 2
    /\ b.transactions[2] = ret.tx
    /\ b.transactions[1] # ret.tx
    /\ CoinbaseShape(trans[b.transactions[1]])
    /\ trans[ret.tx].inputs # << >>

\* The address has no entry in the address-hash index.
UnknownAddress(a) == GetRaw(db, W_ADDRESS_HASH, a) = Nil

\* The call failed and the transactions are as they were.
FailsUnchanged == trans' = trans /\ ~ret'.ok /\ ret'.err # NoErr

\* C21: AddInput, UpdateInput, AddOutput and AddECOutput with an address
\* that has no entry in the address-hash index, and UpdateInput with an
\* index that is not a position of an input, fail with an error and leave
\* the transaction (inputs, outputs, entry-credit outputs, redeem
\* conditions, signature blocks) as it was.
C21_FailedBuildLeavesTransaction ==
    [][\A t \in Allocated, a \in Addresses, amt \in Amounts :
          /\ (UnknownAddress(a) /\ AddInput(t, a, amt)) => FailsUnchanged
          /\ (UnknownAddress(a) /\ AddOutput(t, a, amt)) => FailsUnchanged
          /\ (UnknownAddress(a) /\ AddECOutput(t, a, amt)) => FailsUnchanged
          /\ \A i \in 0..MaxInputs :
                ((UnknownAddress(a) \/ ~Trans_HasInput(trans[t], i))
                    /\ UpdateInput(t, i, a, amt)) => FailsUnchanged]_vars

\* A call with an address the key store does not know has failed on a
\* transaction that has an input and a signature block, while the key store
\* knows another address.
C21_Witness ==
    /\ ret.op \in {"AddInput", "UpdateInput", "AddOutput", "AddECOutput"}
    /\ ret.err = "Unknown address"
    /\ db # EmptyDB
    /\ trans[ret.tx].inputs # << >>
    /\ trans[ret.tx].sigBlocks # << >>

\* The positions whose redeem condition is of the single-key type.
SingleKeyPositions(tx) == { i \in 1..Len(tx.rcds) : tx.rcds[i].type = 1 }
\* The signature block at position i, << >> when the list is shorter.
BlockAt(tx, i) == IF i <= Len(tx.sigBlocks) THEN tx.sigBlocks[i] ELSE << >>

\* C22: SignInputs returns a nil error, and its boolean says whether the
\* number of positions it signed equals the number of inputs; a redeem
\* condition that is not of the single-key type is skipped: the signature
\* block at its position is not set, it is not counted, and the result is
\* false with no error.
C22_SignInputsResult ==
    [][ret'.op = "SignInputs" =>
          LET old == trans[ret'.tx]
              new == trans'[ret'.tx]
          IN  /\ ~panicked'
              /\ ret'.err = NoErr
              /\ ret'.ok = (Cardinality(SingleKeyPositions(old)) = Len(old.inputs))
              /\ \A i \in 1..Len(old.rcds) :
                    IF i \in SingleKeyPositions(old)
                    THEN BlockAt(new, i) # << >>
                    ELSE BlockAt(new, i) = BlockAt(old, i)]_vars

\* The signature block at position i is the signature, by the key of the
\* redeem condition at i, of the payload the transaction has now.
SignatureCurrent(tx, i) ==
    /\ i <= Len(tx.rcds)
    /\ tx.sigBlocks[i] =
          <<Sign(PrivateKeyFor(tx.rcds[i].pub), Trans_MarshalBinarySig(tx))>>
\* SignInputs has signed the transaction (in Spec every redeem condition is
\* one the wallet issued, and SignInputs returns true), and since then the
\* payload has changed under a signature block.
Signed(tx) == tx.sigBlocks # << >>
StaleSigned(tx) ==
    Signed(tx) /\ \E i \in 1..Len(tx.sigBlocks) : ~SignatureCurrent(tx, i)
BuildSucceeds(t) ==
    /\ ret'.ok /\ ret'.err = NoErr
    /\ trans'[t].sigBlocks = trans[t].sigBlocks

\* C23: after SignInputs has returned (true, nil) for a transaction,
\* AddInput, UpdateInput, AddOutput and AddECOutput with a known address
\* still succeed and leave the signature blocks as they are, and
\* AddTransaction does not reject a transaction because its signature
\* blocks are no longer signatures of its payload: it admits it exactly
\* when its shape is well-formed.
C23_RegressionAccepted ==
    [][/\ \A t \in Allocated, a \in Addresses, amt \in Amounts :
            (Signed(trans[t]) /\ ~UnknownAddress(a)) =>
                /\ AddInput(t, a, amt) => BuildSucceeds(t)
                /\ AddOutput(t, a, amt) => BuildSucceeds(t)
                /\ AddECOutput(t, a, amt) => BuildSucceeds(t)
                /\ \A i \in 0..MaxInputs :
                      (Trans_HasInput(trans[t], i) /\ UpdateInput(t, i, a, amt))
                          => BuildSucceeds(t)
       /\ \A t \in Allocated :
            (StaleSigned(trans[t]) /\ AddTransaction(t)) =>
                (ret'.ok <=> Trans_Validate(trans[t]) = WELL_FORMED)]_vars

\* A transaction was signed, then given an output, and AddTransaction has
\* admitted it: the block holds it with a signature block that is not the
\* signature of its payload.
C23_Witness ==
    /\ ret.op = "AddTransaction" /\ ret.ok
    /\ ret.tx \in Held
    /\ StaleSigned(trans[ret.tx])
    /\ trans[ret.tx].outputs # << >>
    /\ Len(trans[ret.tx].sigBlocks) = Len(trans[ret.tx].inputs)

====
